---- MODULE Spec2Model ----
(***************************************************************************)
(* Model of the DocumentMCP demonstration server (mcp_server.py), of its   *)
(* elicitation client (elicitation_client.py) and of MCPClient             *)
(* (mcp_client.py).                                                        *)
(*                                                                         *)
(* Text that the program inspects character by character (completion      *)
(* candidates, partial values, sibling values, what the user types) is a   *)
(* sequence of one-character strings; text that is only compared or        *)
(* passed on (names, messages) is a TLA+ string.                           *)
(***************************************************************************)
EXTENDS Integers, Sequences, FiniteSets, TLC

VARIABLES
    query,        \* the completion request handed to handle_completion
    completion,   \* what handle_completion returned for it
    cpc,          \* "query": request received, "answered": handler returned
    callbacks,    \* the callbacks the caller's ClientSession was created with
    calls,        \* the tool calls of the session, by call id
    subreq,       \* the sub-request each call has issued, by call id
    delivered,    \* the calls whose response the caller has received
    docs,         \* the document table: document id -> content
    tcalls,       \* the calls of the tools that issue no sub-request, by call id
    outbox,       \* the responses the server has sent for those calls, in order
    trip,         \* a caller that edits a document and then edits it back
    client        \* an MCPClient object and the outcome of its last operation

vars == <<query, completion, cpc, callbacks, calls, subreq,
          delivered, docs, tcalls, outbox, trip, client>>

completionVars == <<query, completion, cpc>>
sessionVars == <<callbacks, calls, subreq>>
\* what neither a completion request nor a sub-request tool touches
restVars == <<delivered, docs, tcalls, outbox, trip, client>>

(***************************************************************************)
(* Bounds                                                                  *)
(***************************************************************************)
\* longest partial value typed into a completion request
MaxPartialLen == 2
\* tool calls in flight on one session
MaxCalls == 2
\* roots a list-roots handler returns at most
MaxRoots == 1
\* Python files analyze_project finds under a root at most
MaxPyFiles == 1
MaxDocLen == 3
MaxStrLen == 2
MaxSize == 1
MaxConnects == 2

(***************************************************************************)
(* Text helpers: str.startswith, str.lower, str.strip                      *)
(***************************************************************************)
StartsWith(s, p) ==
    /\ Len(p) <= Len(s)
    /\ SubSeq(s, 1, Len(p)) = p

UpperCase == <<"A","B","C","D","E","F","G","H","I","J","K","L","M",
               "N","O","P","Q","R","S","T","U","V","W","X","Y","Z">>
LowerCase == <<"a","b","c","d","e","f","g","h","i","j","k","l","m",
               "n","o","p","q","r","s","t","u","v","w","x","y","z">>

LowerChar(ch) ==
    IF \E i \in 1..Len(UpperCase) : UpperCase[i] = ch
    THEN LowerCase[CHOOSE i \in 1..Len(UpperCase) : UpperCase[i] = ch]
    ELSE ch

Lower(s) == [i \in 1..Len(s) |-> LowerChar(s[i])]

IsSpace(ch) == ch \in {" ", "\t", "\n"}

RECURSIVE LStrip(_)
LStrip(s) ==
    IF s # <<>> /\ IsSpace(Head(s)) THEN LStrip(Tail(s)) ELSE s

RECURSIVE RStrip(_)
RStrip(s) ==
    IF s # <<>> /\ IsSpace(s[Len(s)]) THEN RStrip(SubSeq(s, 1, Len(s) - 1)) ELSE s

Strip(s) == RStrip(LStrip(s))

Prefix(s, n) == SubSeq(s, 1, IF n < Len(s) THEN n ELSE Len(s))

Range(s) == {s[i] : i \in 1..Len(s)}

NoDuplicates(s) == \A i, j \in 1..Len(s) : s[i] = s[j] => i = j

(***************************************************************************)
(* Completion data                                                         *)
(***************************************************************************)
w_python     == <<"p","y","t","h","o","n">>
w_javascript == <<"j","a","v","a","s","c","r","i","p","t">>
w_typescript == <<"t","y","p","e","s","c","r","i","p","t">>
w_java       == <<"j","a","v","a">>
w_go         == <<"g","o">>
w_rust       == <<"r","u","s","t">>
w_ruby       == <<"r","u","b","y">>
w_fastapi    == <<"f","a","s","t","a","p","i">>
w_flask      == <<"f","l","a","s","k">>
w_django     == <<"d","j","a","n","g","o">>
w_express    == <<"e","x","p","r","e","s","s">>
w_react      == <<"r","e","a","c","t">>
w_vue        == <<"v","u","e">>
w_nestjs     == <<"n","e","s","t","j","s">>
w_angular    == <<"a","n","g","u","l","a","r">>
w_next       == <<"n","e","x","t">>
w_microsoft  == <<"m","i","c","r","o","s","o","f","t">>
w_google     == <<"g","o","o","g","l","e">>
w_facebook   == <<"f","a","c","e","b","o","o","k">>
w_openai     == <<"o","p","e","n","a","i">>
w_anthropic  == <<"a","n","t","h","r","o","p","i","c">>
w_vscode     == <<"v","s","c","o","d","e">>
w_playwright == <<"p","l","a","y","w","r","i","g","h","t">>
w_tensorflow == <<"t","e","n","s","o","r","f","l","o","w">>
w_protobuf   == <<"p","r","o","t","o","b","u","f">>
w_openai_python == <<"o","p","e","n","a","i","-","p","y","t","h","o","n">>
w_gpt_4      == <<"g","p","t","-","4">>
w_whisper    == <<"w","h","i","s","p","e","r">>
w_all        == <<"a","l","l">>
w_security   == <<"s","e","c","u","r","i","t","y">>
w_performance == <<"p","e","r","f","o","r","m","a","n","c","e">>
w_style      == <<"s","t","y","l","e">>
w_Python     == <<"P","y","t","h","o","n">>
w_GOOGLE     == <<"G","O","O","G","L","E">>
w_Fast       == <<"F","a","s","t">>

LANGUAGES == <<w_python, w_javascript, w_typescript, w_java, w_go, w_rust>>

FRAMEWORKS ==
    [k \in {w_python, w_javascript, w_typescript} |->
        CASE k = w_python     -> <<w_fastapi, w_flask, w_django>>
          [] k = w_javascript -> <<w_express, w_react, w_vue>>
          [] k = w_typescript -> <<w_nestjs, w_angular, w_next>>]

GITHUB_OWNERS == <<w_microsoft, w_google, w_facebook, w_openai, w_anthropic>>

GITHUB_REPOS ==
    [k \in {w_microsoft, w_google, w_openai} |->
        CASE k = w_microsoft -> <<w_vscode, w_typescript, w_playwright>>
          [] k = w_google    -> <<w_angular, w_tensorflow, w_protobuf>>
          [] k = w_openai    -> <<w_openai_python, w_gpt_4, w_whisper>>]

FOCUSES == <<w_all, w_security, w_performance, w_style>>

GITHUB_TEMPLATE == "github://repos/{owner}/{repo}"

(***************************************************************************)
(* handle_completion                                                       *)
(***************************************************************************)
\* Completion(values=matches, hasMore=False)
Completion(values) == [isNone |-> FALSE, values |-> values, hasMore |-> FALSE]

\* the handler's "return None"
NoCompletion == [isNone |-> TRUE, values |-> <<>>, hasMore |-> FALSE]

\* Matches with the comparison made case-insensitive
Matches_ignoreCase(candidates, value) ==
    SelectSeq(candidates, LAMBDA c : StartsWith(Lower(c), Lower(value)))

\* [c for c in candidates if c.startswith(value)]
Matches(candidates, value) ==
    SelectSeq(candidates, LAMBDA c : StartsWith(c, value))

\* "context and context.arguments": a context object whose arguments mapping
\* is present and not empty
ContextTruthy(context) ==
    /\ context.present
    /\ context.hasArguments
    /\ DOMAIN context.arguments # {}

\* the sibling value taken as it was written, without .lower()
ContextGetLower_asGiven(context, key) ==
    IF key \in DOMAIN context.arguments THEN context.arguments[key] ELSE <<>>

\* context.arguments.get(key, "").lower()
ContextGetLower(context, key) ==
    Lower(IF key \in DOMAIN context.arguments THEN context.arguments[key] ELSE <<>>)

\* DependentCompletion that ignores which sibling value was given
DependentCompletion_anySubset(table, key, argument, context) ==
    IF ContextTruthy(context)
    THEN LET sibling == ContextGetLower(context, key)
         IN  IF sibling \in DOMAIN table
             THEN Completion(Matches(table[CHOOSE k \in DOMAIN table : TRUE],
                                     argument.value))
             ELSE NoCompletion
    ELSE NoCompletion

\* the lookup of a dependent argument's candidates through its sibling
DependentCompletion(table, key, argument, context) ==
    IF ContextTruthy(context)
    THEN LET sibling == ContextGetLower(context, key)
         IN  IF sibling \in DOMAIN table
             THEN Completion(Matches(table[sibling], argument.value))
             ELSE NoCompletion
    ELSE NoCompletion

handle_completion(ref, argument, context) ==
    IF ref.type = "PromptReference"
    THEN IF ref.id = "review_code"
         THEN IF argument.name = "language"
              THEN Completion(Matches(LANGUAGES, argument.value))
              ELSE IF argument.name = "focus"
              THEN Completion(Matches(FOCUSES, argument.value))
              ELSE NoCompletion
         ELSE IF ref.id = "setup_project"
         THEN IF argument.name = "language"
              THEN Completion(Matches(LANGUAGES, argument.value))
              ELSE IF argument.name = "framework"
              THEN DependentCompletion(FRAMEWORKS, "language", argument, context)
              ELSE NoCompletion
         ELSE NoCompletion
    ELSE IF ref.type = "ResourceTemplateReference"
    THEN IF ref.id = GITHUB_TEMPLATE
         THEN IF argument.name = "owner"
              THEN Completion(Matches(GITHUB_OWNERS, argument.value))
              ELSE IF argument.name = "repo"
              THEN DependentCompletion(GITHUB_REPOS, "owner", argument, context)
              ELSE NoCompletion
         ELSE NoCompletion
    ELSE NoCompletion

(***************************************************************************)
(* Completion requests the caller can send                                 *)
(***************************************************************************)
Refs ==
    {[type |-> "PromptReference", id |-> n] :
        n \in {"review_code", "setup_project", "format"}}
    \cup
    {[type |-> "ResourceTemplateReference", id |-> u] :
        u \in {GITHUB_TEMPLATE, "docs://{doc_id}"}}

ArgumentNames == {"language", "focus", "framework", "owner", "repo", "doc_id"}

Words ==
    Range(LANGUAGES) \cup Range(FOCUSES) \cup Range(GITHUB_OWNERS)
    \cup UNION {Range(FRAMEWORKS[k]) : k \in DOMAIN FRAMEWORKS}
    \cup UNION {Range(GITHUB_REPOS[k]) : k \in DOMAIN GITHUB_REPOS}
    \cup {w_ruby, w_Fast, w_Python}

Partials == {Prefix(w, n) : w \in Words, n \in 0..MaxPartialLen}

SiblingValues ==
    {w_python, w_typescript, w_ruby, w_java, w_Python,
     w_microsoft, w_facebook, w_GOOGLE}

SiblingNames == {"language", "owner"}

NoContext == [present |-> FALSE, hasArguments |-> FALSE, arguments |-> <<>>]

Contexts ==
    {NoContext,
     [present |-> TRUE, hasArguments |-> FALSE, arguments |-> <<>>]}
    \cup
    {[present |-> TRUE, hasArguments |-> TRUE, arguments |-> m] :
        m \in UNION {[S -> SiblingValues] : S \in SUBSET SiblingNames}}

Queries ==
    [ref : Refs,
     argument : [name : ArgumentNames, value : Partials],
     context : Contexts]

InitQuery ==
    [ref |-> [type |-> "PromptReference", id |-> "review_code"],
     argument |-> [name |-> "language", value |-> <<>>],
     context |-> NoContext]

InitCompletion ==
    /\ query \in Queries
    /\ completion = NoCompletion
    /\ cpc = "query"

\* the server runs handle_completion on the request
Complete ==
    /\ cpc = "query"
    /\ completion' = handle_completion(query.ref, query.argument, query.context)
    /\ cpc' = "answered"
    /\ UNCHANGED <<query, sessionVars, restVars>>

(***************************************************************************)
(* The session: tool calls and the sub-requests they issue                 *)
(***************************************************************************)
CallIds == 1..MaxCalls

Tools == {"order_pizza", "create_story", "analyze_project"}

\* the sub-request kind each tool issues from inside its body
SubRequestKind(tool) ==
    CASE tool = "order_pizza"     -> "elicitation"
      [] tool = "create_story"    -> "sampling"
      [] tool = "analyze_project" -> "list_roots"

\* the arguments the caller passes: size for order_pizza, topic for create_story
ToolArgs(tool) ==
    CASE tool = "order_pizza"     -> {"large", "medium"}
      [] tool = "create_story"    -> {"bugs"}
      [] tool = "analyze_project" -> {"-"}

\* MCPClient.connect: ClientSession(_read, _write), no callback at all
ConnectCallbacks ==
    [elicitation |-> "none", sampling |-> "none", list_roots |-> "none"]

\* elicitation_client.main: ClientSession(..., elicitation_callback=mock_elicitation)
ElicitationClientCallbacks ==
    [elicitation |-> "mock_elicitation", sampling |-> "none", list_roots |-> "none"]

\* a caller that supplies its own handler for every kind; mock_sampler is the
\* sampling callback the repository provides
CallerCallbacks ==
    {[elicitation |-> "handler", sampling |-> s, list_roots |-> "handler"] :
        s \in {"mock_sampler", "handler"}}

CallbackSetups == {ConnectCallbacks, ElicitationClientCallbacks} \cup CallerCallbacks

NoReturn ==
    [type |-> "NoReturn", action |-> "", content |-> <<>>, roots |-> <<>>,
     message |-> ""]

NoResponse == [isError |-> FALSE, text |-> <<>>]

IdleCall == [state |-> "idle", tool |-> "", arg |-> "", response |-> NoResponse]

NoSubRequest == [kind |-> "none", status |-> "none", ret |-> NoReturn]

InitSession ==
    /\ callbacks \in CallbackSetups
    /\ calls = [c \in CallIds |-> IdleCall]
    /\ subreq = [c \in CallIds |-> NoSubRequest]

\* input() inside mock_elicitation is a blocking read on the caller's only
\* thread: while it waits for the user, the caller's event loop runs nothing
ClientBlocked ==
    \E c \in CallIds : subreq[c].status \in {"input_answer", "input_toppings"}

\* session.call_tool(name, arguments): the caller sends the request
CallTool(c, tool, arg) ==
    /\ ~ClientBlocked
    /\ calls[c].state = "idle"
    /\ \A d \in CallIds : d < c => calls[d].state # "idle"
    /\ arg \in ToolArgs(tool)
    /\ calls' = [calls EXCEPT ![c] =
                    [state |-> "called", tool |-> tool, arg |-> arg,
                     response |-> NoResponse]]
    /\ UNCHANGED <<subreq, callbacks, completionVars, restVars>>

\* the tool body runs up to its await of the nested request and suspends there
IssueSubRequest(c, tool) ==
    /\ calls[c].state = "called"
    /\ calls[c].tool = tool
    /\ calls' = [calls EXCEPT ![c].state = "awaiting"]
    /\ subreq' = [subreq EXCEPT ![c] =
                    [kind |-> SubRequestKind(tool), status |-> "pending",
                     ret |-> NoReturn]]
    /\ UNCHANGED <<callbacks, completionVars, restVars>>

\* order_pizza up to "await ctx.elicit(...)"
order_pizza_elicit(c) == IssueSubRequest(c, "order_pizza")

\* create_story up to "await ctx.session.create_message(...)"
create_story_sample(c) == IssueSubRequest(c, "create_story")

\* analyze_project up to "await ctx.session.list_roots()"
analyze_project_list_roots(c) == IssueSubRequest(c, "analyze_project")

(***************************************************************************)
(* The caller's side: what answers a sub-request                           *)
(***************************************************************************)
Resolve(c, ret) ==
    subreq' = [subreq EXCEPT ![c].status = "resolved", ![c].ret = ret]

ErrorData(message) ==
    [type |-> "ErrorData", action |-> "", content |-> <<>>, roots |-> <<>>,
     message |-> message]

\* the handler raised instead of returning
Raised(message) ==
    [type |-> "raise", action |-> "", content |-> <<>>, roots |-> <<>>,
     message |-> message]

\* a Python function that falls off its end returns None
ReturnedNone ==
    [type |-> "None", action |-> "", content |-> <<>>, roots |-> <<>>,
     message |-> ""]

ElicitResult(action, content) ==
    [type |-> "ElicitResult", action |-> action, content |-> content,
     roots |-> <<>>, message |-> ""]

CreateMessageResult(content) ==
    [type |-> "CreateMessageResult", action |-> "", content |-> content,
     roots |-> <<>>, message |-> ""]

ListRootsResult(roots) ==
    [type |-> "ListRootsResult", action |-> "", content |-> <<>>,
     roots |-> roots, message |-> ""]

NotSupported(kind) ==
    CASE kind = "elicitation" -> "Elicitation not supported"
      [] kind = "sampling"    -> "Sampling not supported"
      [] kind = "list_roots"  -> "List roots not supported"

\* a ClientSession created without a callback for the kind answers the
\* sub-request with an error
DefaultCallback(c) ==
    /\ ~ClientBlocked
    /\ subreq[c].status = "pending"
    /\ callbacks[subreq[c].kind] = "none"
    /\ Resolve(c, ErrorData(NotSupported(subreq[c].kind)))
    /\ UNCHANGED <<calls, callbacks, completionVars, restVars>>

w_yes     == <<"y","e","s">>
w_accept  == <<"a","c","c","e","p","t">>
w_y       == <<"y">>
w_no      == <<"n","o">>
w_decline == <<"d","e","c","l","i","n","e">>
w_n       == <<"n">>
w_cancel  == <<"c","a","n","c","e","l">>
w_mushrooms == <<"m","u","s","h","r","o","o","m","s">>
w_olives  == <<"o","l","i","v","e","s">>

\* what the user may type at the first prompt
UserAnswers ==
    {w_yes, <<" ","Y"," ">>, w_accept, w_no, <<"N","o","\n">>, w_decline, w_n,
     w_cancel, <<"m","a","y","b","e">>, <<>>}

\* what the user may type at the toppings prompt
UserToppings == {<<>>, <<" ">> \o w_olives, w_mushrooms}

\* mock_elicitation is entered and blocks in input(params.message)
mock_elicitation_prompt(c) ==
    /\ ~ClientBlocked
    /\ subreq[c].status = "pending"
    /\ subreq[c].kind = "elicitation"
    /\ callbacks.elicitation = "mock_elicitation"
    /\ subreq' = [subreq EXCEPT ![c].status = "input_answer"]
    /\ UNCHANGED <<calls, callbacks, completionVars, restVars>>

\* the value mock_elicitation returns right after the first answer, if it
\* returns there
mock_elicitation_first(user_input) ==
    IF user_input \in {w_no, w_decline, w_n}
    THEN ElicitResult("decline", [want_toppings |-> FALSE])
    ELSE ReturnedNone

\* the user answers the first prompt; user_input = input(...).strip().lower()
mock_elicitation_answer(c, typed) ==
    /\ subreq[c].status = "input_answer"
    /\ LET user_input == Lower(Strip(typed))
       IN  IF user_input \in {w_yes, w_accept, w_y}
           THEN subreq' = [subreq EXCEPT ![c].status = "input_toppings"]
           ELSE Resolve(c, mock_elicitation_first(user_input))
    /\ UNCHANGED <<calls, callbacks, completionVars, restVars>>

\* the value mock_elicitation returns once the toppings are typed
mock_elicitation_accept(typed) ==
    ElicitResult("accept", [want_toppings |-> TRUE, toppings |-> Strip(typed)])

\* the user answers the toppings prompt
mock_elicitation_toppings(c, typed) ==
    /\ subreq[c].status = "input_toppings"
    /\ Resolve(c, mock_elicitation_accept(typed))
    /\ UNCHANGED <<calls, callbacks, completionVars, restVars>>

\* the results a caller-supplied elicitation handler may produce
ElicitContents ==
    {[want_toppings |-> b, toppings |-> t] : b \in BOOLEAN, t \in {w_olives}}
    \cup {[want_toppings |-> b] : b \in BOOLEAN}
    \cup {[toppings |-> w_olives], <<>>}

HandlerElicitReturns ==
    {ElicitResult("accept", d) : d \in ElicitContents}
    \cup {ElicitResult("decline", <<>>), ElicitResult("cancel", <<>>),
          Raised("handler failed")}

\* a caller-supplied elicitation handler answers
ElicitationHandler(c, ret) ==
    /\ ~ClientBlocked
    /\ subreq[c].status = "pending"
    /\ subreq[c].kind = "elicitation"
    /\ callbacks.elicitation = "handler"
    /\ Resolve(c, ret)
    /\ UNCHANGED <<calls, callbacks, completionVars, restVars>>

TextContent(text) == [type |-> "text", text |-> text]

\* the value MCPClient.mock_sampler returns
mock_sampler_result ==
    CreateMessageResult(TextContent("In a world of shimmering code, ..."))

mock_sampler(c) ==
    /\ ~ClientBlocked
    /\ subreq[c].status = "pending"
    /\ subreq[c].kind = "sampling"
    /\ callbacks.sampling = "mock_sampler"
    /\ Resolve(c, mock_sampler_result)
    /\ UNCHANGED <<calls, callbacks, completionVars, restVars>>

HandlerSampleReturns ==
    {CreateMessageResult(TextContent("a story")),
     CreateMessageResult([type |-> "image", text |-> ""]),
     Raised("handler failed")}

\* a caller-supplied sampling handler answers
SamplingHandler(c, ret) ==
    /\ ~ClientBlocked
    /\ subreq[c].status = "pending"
    /\ subreq[c].kind = "sampling"
    /\ callbacks.sampling = "handler"
    /\ Resolve(c, ret)
    /\ UNCHANGED <<calls, callbacks, completionVars, restVars>>

RootUris ==
    {[scheme |-> "file", path |-> "/home/user/project"],
     [scheme |-> "file", path |-> "/tmp/empty"]}

RootLists == UNION {[1..n -> RootUris] : n \in 0..MaxRoots}

HandlerRootsReturns ==
    {ListRootsResult(r) : r \in RootLists} \cup {Raised("handler failed")}

\* a caller-supplied list-roots handler answers
ListRootsHandler(c, ret) ==
    /\ ~ClientBlocked
    /\ subreq[c].status = "pending"
    /\ subreq[c].kind = "list_roots"
    /\ callbacks.list_roots = "handler"
    /\ Resolve(c, ret)
    /\ UNCHANGED <<calls, callbacks, completionVars, restVars>>

(***************************************************************************)
(* The tools' side: resuming from the await and returning                  *)
(***************************************************************************)
\* a tool body that goes on as soon as the nested request is sent
SubRequestResolved_issued(c) == subreq[c].status # "none"

\* the await of the nested request returns only once the caller has answered
SubRequestResolved(c) == subreq[c].status = "resolved"

\* the awaited nested request fails unless the caller answered with a result
InvokeFailed(ret) ==
    ret.type \notin {"ElicitResult", "CreateMessageResult", "ListRootsResult"}

InvokeError(ret) ==
    IF ret.type \in {"ErrorData", "raise"} THEN ret.message ELSE "Invalid result"

\* OrderPreferences with want_toppings given a default (False), hence optional
OrderPreferences_optional(content) ==
    [valid |-> TRUE,
     data |-> [want_toppings |-> IF "want_toppings" \in DOMAIN content
                                 THEN content.want_toppings ELSE FALSE,
               toppings |-> IF "toppings" \in DOMAIN content
                            THEN content.toppings ELSE w_mushrooms]]

\* OrderPreferences(**content): want_toppings is required, toppings has the
\* default "mushrooms"; content without want_toppings does not validate
OrderPreferences(content) ==
    IF "want_toppings" \in DOMAIN content
    THEN [valid |-> TRUE,
          data |-> [want_toppings |-> content.want_toppings,
                    toppings |-> IF "toppings" \in DOMAIN content
                                 THEN content.toppings ELSE w_mushrooms]]
    ELSE [valid |-> FALSE, data |-> <<>>]

\* await ctx.elicit(message=..., schema=OrderPreferences): the accepted content
\* is validated against the schema before the tool sees it
elicit(ret) ==
    IF InvokeFailed(ret)
    THEN [raised |-> TRUE, error |-> InvokeError(ret), action |-> "", data |-> <<>>]
    ELSE IF ret.action = "accept"
    THEN LET validated == OrderPreferences(ret.content)
         IN  IF validated.valid
             THEN [raised |-> FALSE, error |-> "", action |-> "accept",
                   data |-> validated.data]
             ELSE [raised |-> TRUE, error |-> "validation error for OrderPreferences",
                   action |-> "", data |-> <<>>]
    ELSE [raised |-> FALSE, error |-> "", action |-> ret.action, data |-> <<>>]

\* a tool's return value, sent as the call's response
Returned(text) == [isError |-> FALSE, text |-> text]

\* an exception that leaves the tool body: the call's response is an error
ToolRaised(e) == [isError |-> TRUE, text |-> <<e>>]

\* order_pizza without its try/except: a failed elicit leaves the tool body
order_pizza_response_uncaught(size, ret) ==
    LET result == elicit(ret)
    IN  IF result.raised
        THEN ToolRaised(result.error)
        ELSE IF result.action = "accept" /\ result.data # <<>>
        THEN IF result.data.want_toppings
             THEN Returned(<<"Order confirmed: ", size, " pizza with ",
                             result.data.toppings>>)
             ELSE Returned(<<"Order confirmed: ", size, " plain pizza">>)
        ELSE IF result.action = "decline"
        THEN Returned(<<"Order declined: No pizza ordered">>)
        ELSE Returned(<<"Order cancelled">>)

\* order_pizza that does not test want_toppings before naming the toppings
order_pizza_response_alwaysToppings(size, ret) ==
    LET result == elicit(ret)
    IN  IF result.raised
        THEN Returned(<<"Error processing pizza order: ", result.error>>)
        ELSE IF result.action = "accept" /\ result.data # <<>>
        THEN Returned(<<"Order confirmed: ", size, " pizza with ",
                        result.data.toppings>>)
        ELSE IF result.action = "decline"
        THEN Returned(<<"Order declined: No pizza ordered">>)
        ELSE Returned(<<"Order cancelled">>)

\* order_pizza from the result of ctx.elicit to its return
order_pizza_response(size, ret) ==
    LET result == elicit(ret)
    IN  IF result.raised
        THEN Returned(<<"Error processing pizza order: ", result.error>>)
        ELSE IF result.action = "accept" /\ result.data # <<>>
        THEN IF result.data.want_toppings
             THEN Returned(<<"Order confirmed: ", size, " pizza with ",
                             result.data.toppings>>)
             ELSE Returned(<<"Order confirmed: ", size, " plain pizza">>)
        ELSE IF result.action = "decline"
        THEN Returned(<<"Order declined: No pizza ordered">>)
        ELSE Returned(<<"Order cancelled">>)

order_pizza_return(c) ==
    /\ calls[c].state = "awaiting"
    /\ calls[c].tool = "order_pizza"
    /\ SubRequestResolved(c)
    /\ calls' = [calls EXCEPT ![c].state = "done",
                   ![c].response = order_pizza_response(calls[c].arg, subreq[c].ret)]
    /\ UNCHANGED <<subreq, callbacks, completionVars, restVars>>

\* create_story from the result of create_message to its return
create_story_response(topic, ret) ==
    IF InvokeFailed(ret)
    THEN Returned(<<"Error asking client to generate story: ", InvokeError(ret)>>)
    ELSE IF ret.content.type = "text"
    THEN Returned(<<ret.content.text>>)
    ELSE Returned(<<"str(result.content)", ret.content.type>>)

create_story_return(c) ==
    /\ calls[c].state = "awaiting"
    /\ calls[c].tool = "create_story"
    /\ SubRequestResolved(c)
    /\ calls' = [calls EXCEPT ![c].state = "done",
                   ![c].response = create_story_response(calls[c].arg, subreq[c].ret)]
    /\ UNCHANGED <<subreq, callbacks, completionVars, restVars>>

\* urlparse(root.uri).path
UrlPath(uri) == uri.path

\* analyze_project without the test for no roots: roots.roots[0] raises
\* IndexError on the empty list
analyze_project_response_unchecked(ret, py_files) ==
    IF InvokeFailed(ret)
    THEN ToolRaised(InvokeError(ret))
    ELSE IF Len(ret.roots) = 0
    THEN ToolRaised("list index out of range")
    ELSE LET root == ret.roots[1]
             path == UrlPath(root)
         IN  Returned(<<"Found ", py_files, " Python files in project at ", path>>)

\* analyze_project from the result of list_roots to its return; py_files is the
\* number of files path.glob("**/*.py") finds
analyze_project_response(ret, py_files) ==
    IF InvokeFailed(ret)
    THEN ToolRaised(InvokeError(ret))
    ELSE IF Len(ret.roots) = 0
    THEN Returned(<<"No project roots found">>)
    ELSE LET root == ret.roots[1]
             path == UrlPath(root)
         IN  Returned(<<"Found ", py_files, " Python files in project at ", path>>)

analyze_project_return(c, py_files) ==
    /\ calls[c].state = "awaiting"
    /\ calls[c].tool = "analyze_project"
    /\ SubRequestResolved(c)
    /\ calls' = [calls EXCEPT ![c].state = "done",
                   ![c].response = analyze_project_response(subreq[c].ret, py_files)]
    /\ UNCHANGED <<subreq, callbacks, completionVars, restVars>>

(***************************************************************************)
(* The document table and the tools that issue no sub-request              *)
(***************************************************************************)
\* the table the server starts with; the contents are shortened to a few
\* characters, and two of the six documents are kept
DocTable ==
    [id \in {"plan.md", "spec.txt"} |->
        IF id = "plan.md" THEN <<"a","y","a">> ELSE <<"y","a">>]

\* the ids a caller asks for: one that is in the table, one that is not
AskedIds == {"plan.md", "missing.md"}

\* "".join of new before every character of s and after the last one: what
\* str.replace does for an empty old string
RECURSIVE Interleave(_, _)
Interleave(s, new) ==
    IF s = <<>> THEN new ELSE new \o <<Head(s)>> \o Interleave(Tail(s), new)

RECURSIVE ReplaceScan(_, _, _)
\* a scan that stops after the first replacement (str.replace with count 1)
ReplaceScan_first(s, old, new) ==
    IF Len(s) < Len(old)
    THEN s
    ELSE IF SubSeq(s, 1, Len(old)) = old
    THEN new \o SubSeq(s, Len(old) + 1, Len(s))
    ELSE <<Head(s)>> \o ReplaceScan(Tail(s), old, new)

\* a scan that loses the tail shorter than old
ReplaceScan_dropsTail(s, old, new) ==
    IF Len(s) < Len(old)
    THEN <<>>
    ELSE IF SubSeq(s, 1, Len(old)) = old
    THEN new \o ReplaceScan(SubSeq(s, Len(old) + 1, Len(s)), old, new)
    ELSE <<Head(s)>> \o ReplaceScan(Tail(s), old, new)

\* the scan of str.replace for a non-empty old string: leftmost occurrence
\* first, the search going on after the replaced text
ReplaceScan(s, old, new) ==
    IF Len(s) < Len(old)
    THEN s
    ELSE IF SubSeq(s, 1, Len(old)) = old
    THEN new \o ReplaceScan(SubSeq(s, Len(old) + 1, Len(s)), old, new)
    ELSE <<Head(s)>> \o ReplaceScan(Tail(s), old, new)

\* str.replace(old, new)
Replace(s, old, new) ==
    IF old = <<>> THEN Interleave(s, new) ELSE ReplaceScan(s, old, new)

IdleToolCall ==
    [state |-> "idle", tool |-> "", args |-> <<>>, response |-> NoResponse,
     log |-> <<>>, progress |-> <<>>, step |-> 0]

DocTools == {"read_doc_contents", "edit_document", "get_doc", "list_docs",
             "process_item"}

\* the edits the concurrent callers ask for
EditPairs == {<< <<"a">>, <<"y">> >>, << <<"y">>, <<"a">> >>}

DocToolArgs(tool) ==
    CASE tool \in {"read_doc_contents", "get_doc"} ->
            {[doc_id |-> id] : id \in AskedIds}
      [] tool = "edit_document" ->
            {[doc_id |-> id, old_str |-> e[1], new_str |-> e[2]] :
                id \in AskedIds, e \in EditPairs}
      [] tool = "list_docs" -> {[uri |-> "docs://documents"]}
      [] tool = "process_item" ->
            {[item_id |-> "item-1", should_fail |-> b] : b \in BOOLEAN}

\* the caller sends a call of a document or logging tool (or a resource read)
CallDocTool(c, tool, args) ==
    /\ tcalls[c].state = "idle"
    /\ \A d \in CallIds : d < c => tcalls[d].state # "idle"
    /\ args \in DocToolArgs(tool)
    /\ tcalls' = [tcalls EXCEPT ![c] =
                     [IdleToolCall EXCEPT !.state = "called", !.tool = tool,
                                          !.args = args]]
    /\ UNCHANGED <<docs, outbox, delivered, trip, client, sessionVars, completionVars>>

\* a dispatcher that lets a raising tool body end the call without a response
Respond_silent(c, response) ==
    /\ tcalls' = [tcalls EXCEPT
                     ![c].state = IF response.isError THEN "failed" ELSE "done",
                     ![c].response = response]
    /\ outbox' = IF response.isError
                 THEN outbox
                 ELSE Append(outbox, [call |-> c, response |-> response])

\* the call ends: its one response goes out
Respond(c, response) ==
    /\ tcalls' = [tcalls EXCEPT ![c].state = "done", ![c].response = response]
    /\ outbox' = Append(outbox, [call |-> c, response |-> response])

NotFound(doc_id) == ToolRaised("Doc with id not found")

\* a read that creates the entry it does not find (docs.setdefault)
read_document_setdefault(c) ==
    /\ tcalls[c].state = "called"
    /\ tcalls[c].tool = "read_doc_contents"
    /\ LET doc_id == tcalls[c].args.doc_id
       IN  IF doc_id \notin DOMAIN docs
           THEN /\ Respond(c, Returned(<< <<>> >>))
                /\ docs' = [id \in DOMAIN docs \cup {doc_id} |->
                               IF id = doc_id THEN <<>> ELSE docs[id]]
           ELSE /\ Respond(c, Returned(<<docs[doc_id]>>))
                /\ docs' = docs
    /\ UNCHANGED <<delivered, trip, client, sessionVars, completionVars>>

\* read_document: the tool read_doc_contents
read_document(c) ==
    /\ tcalls[c].state = "called"
    /\ tcalls[c].tool = "read_doc_contents"
    /\ LET doc_id == tcalls[c].args.doc_id
       IN  IF doc_id \notin DOMAIN docs
           THEN Respond(c, NotFound(doc_id))
           ELSE Respond(c, Returned(<<docs[doc_id]>>))
    /\ UNCHANGED <<docs, delivered, trip, client, sessionVars, completionVars>>

\* the table after edit_document(doc_id, old_str, new_str) on a known id
EditedDocs(table, doc_id, old_str, new_str) ==
    [table EXCEPT ![doc_id] = Replace(table[doc_id], old_str, new_str)]

\* an edit that writes new_str as a new document when the id is unknown
edit_document_upsert(c) ==
    /\ tcalls[c].state = "called"
    /\ tcalls[c].tool = "edit_document"
    /\ LET a == tcalls[c].args
       IN  /\ docs' = [id \in DOMAIN docs \cup {a.doc_id} |->
                          IF id # a.doc_id THEN docs[id]
                          ELSE IF id \in DOMAIN docs
                          THEN Replace(docs[id], a.old_str, a.new_str)
                          ELSE a.new_str]
           /\ Respond(c, Returned(<<"Successfully updated document ",
                                    a.doc_id>>))
    /\ UNCHANGED <<delivered, trip, client, sessionVars, completionVars>>

\* an edit that gives up the event loop after its first replacement and
\* replaces the rest when it runs again
edit_document_yielding(c) ==
    /\ tcalls[c].state = "called"
    /\ tcalls[c].tool = "edit_document"
    /\ LET a == tcalls[c].args
       IN  IF a.doc_id \notin DOMAIN docs
           THEN /\ Respond(c, NotFound(a.doc_id))
                /\ docs' = docs
           ELSE IF tcalls[c].step = 0
           THEN /\ docs' = [docs EXCEPT ![a.doc_id] =
                               ReplaceScan_first(@, a.old_str, a.new_str)]
                /\ tcalls' = [tcalls EXCEPT ![c].step = 1]
                /\ outbox' = outbox
           ELSE /\ docs' = EditedDocs(docs, a.doc_id, a.old_str, a.new_str)
                /\ Respond(c, Returned(<<"Successfully updated document ",
                                         a.doc_id>>))
    /\ UNCHANGED <<delivered, trip, client, sessionVars, completionVars>>

\* edit_document: a plain function, run from its first line to its return
\* without giving up the event loop
edit_document(c) ==
    /\ tcalls[c].state = "called"
    /\ tcalls[c].tool = "edit_document"
    /\ LET a == tcalls[c].args
       IN  IF a.doc_id \notin DOMAIN docs
           THEN /\ Respond(c, NotFound(a.doc_id))
                /\ docs' = docs
           ELSE /\ docs' = EditedDocs(docs, a.doc_id, a.old_str, a.new_str)
                /\ Respond(c, Returned(<<"Successfully updated document ",
                                         a.doc_id>>))
    /\ UNCHANGED <<delivered, trip, client, sessionVars, completionVars>>

\* get_doc: the resource docs://{doc_id}; docs[doc_id] raises KeyError for an
\* id that is not in the table
get_doc(c) ==
    /\ tcalls[c].state = "called"
    /\ tcalls[c].tool = "get_doc"
    /\ LET doc_id == tcalls[c].args.doc_id
       IN  IF doc_id \notin DOMAIN docs
           THEN Respond(c, ToolRaised("KeyError"))
           ELSE Respond(c, Returned(<<docs[doc_id]>>))
    /\ UNCHANGED <<docs, delivered, trip, client, sessionVars, completionVars>>

\* list_docs: the resource docs://documents
list_docs(c) ==
    /\ tcalls[c].state = "called"
    /\ tcalls[c].tool = "list_docs"
    /\ Respond(c, Returned(<<DOMAIN docs>>))
    /\ UNCHANGED <<docs, delivered, trip, client, sessionVars, completionVars>>

\* process_item up to its second sleep: ctx.debug, sleep, ctx.info, sleep
process_item_load(c) ==
    /\ tcalls[c].state = "called"
    /\ tcalls[c].tool = "process_item"
    /\ tcalls[c].step \in {0, 1}
    /\ tcalls' = [tcalls EXCEPT
                     ![c].step = @ + 1,
                     ![c].log = Append(@, IF tcalls[c].step = 0
                                          THEN "debug" ELSE "info")]
    /\ UNCHANGED <<docs, outbox, delivered, trip, client, sessionVars, completionVars>>

\* process_item with should_fail: ctx.warning, then the sleep
process_item_warn(c) ==
    /\ tcalls[c].state = "called"
    /\ tcalls[c].tool = "process_item"
    /\ tcalls[c].step = 2
    /\ tcalls[c].args.should_fail
    /\ tcalls' = [tcalls EXCEPT ![c].step = 3, ![c].log = Append(@, "warning")]
    /\ UNCHANGED <<docs, outbox, delivered, trip, client, sessionVars, completionVars>>

\* process_item to its return: ctx.error and "Failed to process", or ctx.info
\* and "Successfully processed"; both are returned, neither is raised
process_item_return(c) ==
    /\ tcalls[c].state = "called"
    /\ tcalls[c].tool = "process_item"
    /\ IF tcalls[c].args.should_fail
       THEN /\ tcalls[c].step = 3
            /\ tcalls' = [tcalls EXCEPT
                  ![c].state = "done", ![c].log = Append(@, "error"),
                  ![c].response = Returned(<<"Failed to process ",
                                             tcalls[c].args.item_id>>)]
            /\ outbox' = Append(outbox,
                  [call |-> c,
                   response |-> Returned(<<"Failed to process ",
                                           tcalls[c].args.item_id>>)])
       ELSE /\ tcalls[c].step = 2
            /\ tcalls' = [tcalls EXCEPT
                  ![c].state = "done", ![c].log = Append(@, "info"),
                  ![c].response = Returned(<<"Successfully processed ",
                                             tcalls[c].args.item_id>>)]
            /\ outbox' = Append(outbox,
                  [call |-> c,
                   response |-> Returned(<<"Successfully processed ",
                                           tcalls[c].args.item_id>>)])
    /\ UNCHANGED <<docs, delivered, trip, client, sessionVars, completionVars>>

(***************************************************************************)
(* The tools that report progress                                          *)
(***************************************************************************)
\* total_chunks = size_mb * 10
ChunksPerMb == 10

ProgressTools == {"download_file", "process_data"}

ProgressToolArgs(tool) ==
    IF tool = "download_file"
    THEN {[filename |-> "f.bin", size_mb |-> n] : n \in 0..MaxSize}
    ELSE {[records |-> n] : n \in 0..MaxSize}

CallProgressTool(c, tool, args) ==
    /\ tcalls[c].state = "idle"
    /\ \A d \in CallIds : d < c => tcalls[d].state # "idle"
    /\ args \in ProgressToolArgs(tool)
    /\ tcalls' = [tcalls EXCEPT ![c] =
                     [IdleToolCall EXCEPT !.state = "called", !.tool = tool,
                                          !.args = args]]
    /\ UNCHANGED <<docs, outbox, delivered, trip, client, sessionVars, completionVars>>

\* the total a call of a progress tool reports
total_chunks(c) ==
    IF tcalls[c].tool = "download_file"
    THEN tcalls[c].args.size_mb * ChunksPerMb
    ELSE tcalls[c].args.records

\* the first line of both tools: ctx.info("Starting ...")
progress_start(c) ==
    /\ tcalls[c].state = "called"
    /\ tcalls[c].tool \in ProgressTools
    /\ tcalls[c].log = <<>>
    /\ tcalls' = [tcalls EXCEPT ![c].log = <<"info">>]
    /\ UNCHANGED <<docs, outbox, delivered, trip, client, sessionVars, completionVars>>

\* one round of the loop of download_file, chunk = tcalls[c].step: the
\* percentage chunk / total_chunks, then report_progress and the sleep
download_file_chunk(c) ==
    /\ tcalls[c].state = "called"
    /\ tcalls[c].tool = "download_file"
    /\ tcalls[c].log # <<>>
    /\ tcalls[c].step <= total_chunks(c)
    /\ IF total_chunks(c) = 0
       THEN Respond(c, ToolRaised("ZeroDivisionError"))
       ELSE /\ tcalls' = [tcalls EXCEPT
                   ![c].step = @ + 1,
                   ![c].progress = Append(@, [progress |-> tcalls[c].step,
                                              total |-> total_chunks(c)])]
            /\ outbox' = outbox
    /\ UNCHANGED <<docs, delivered, trip, client, sessionVars, completionVars>>

\* one round of the loop of process_data, i = tcalls[c].step
process_data_record(c) ==
    /\ tcalls[c].state = "called"
    /\ tcalls[c].tool = "process_data"
    /\ tcalls[c].log # <<>>
    /\ tcalls[c].step <= total_chunks(c)
    /\ tcalls' = [tcalls EXCEPT
           ![c].step = @ + 1,
           ![c].progress = Append(@, [progress |-> tcalls[c].step,
                                      total |-> tcalls[c].args.records])]
    /\ UNCHANGED <<docs, outbox, delivered, trip, client, sessionVars, completionVars>>

\* after the loop of either tool: ctx.info("... completed"), the return
progress_return(c) ==
    /\ tcalls[c].state = "called"
    /\ tcalls[c].tool \in ProgressTools
    /\ tcalls[c].log # <<>>
    /\ tcalls[c].step > total_chunks(c)
    /\ LET response ==
               IF tcalls[c].tool = "download_file"
               THEN Returned(<<"Successfully downloaded ",
                               tcalls[c].args.filename>>)
               ELSE Returned(<<"Successfully processed records">>)
       IN  /\ tcalls' = [tcalls EXCEPT ![c].state = "done",
                                       ![c].log = Append(@, "info"),
                                       ![c].response = response]
           /\ outbox' = Append(outbox, [call |-> c, response |-> response])
    /\ UNCHANGED <<docs, delivered, trip, client, sessionVars, completionVars>>

(***************************************************************************)
(* MCPClient                                                               *)
(***************************************************************************)
NoOperation == [op |-> "none", outcome |-> "none", sent |-> FALSE,
                connected |-> FALSE]

\* MCPClient.__init__: _session is None, the exit stack is empty.
\*   session     _session: "None" or "ClientSession"
\*   initialized the ClientSession in _session has completed initialize()
\*               and has not been closed
\*   open        the contexts entered on _exit_stack and not yet closed
\*   connected   a connect() has returned and no cleanup() has run since
\*   within      the body of "async with MCPClient(...)" is running
\*   cleaned     the last call on the object was a cleanup() that returned
\*   last        the last operation: its outcome, whether it sent a request,
\*               and whether the client was connected when it was called
NewClient ==
    [session |-> "None", initialized |-> FALSE, open |-> 0,
     connected |-> FALSE, within |-> FALSE, cleaned |-> FALSE,
     last |-> NoOperation]

\* how a connect() can go: it returns, or entering the transport raises, or
\* initialize() raises
ConnectOutcomes == {"returns", "transport_raises", "initialize_raises"}

\* the client after connect(): the transport context and the ClientSession
\* context are entered one after the other, _session is assigned before
\* initialize() is awaited
Connected(cl, outcome) ==
    IF outcome = "transport_raises"
    THEN [cl EXCEPT !.cleaned = FALSE]
    ELSE [cl EXCEPT !.session = "ClientSession",
                    !.initialized = (outcome = "returns"),
                    !.open = @ + 2,
                    !.connected = (@ \/ outcome = "returns"),
                    !.cleaned = FALSE]

\* the client after cleanup(): aclose() runs every exit callback; when one of
\* them raises, aclose() raises and the assignment after it is not reached
CleanedUp(cl, raises) ==
    [cl EXCEPT !.open = 0,
               !.session = IF raises THEN @ ELSE "None",
               !.initialized = FALSE,
               !.connected = FALSE,
               !.cleaned = ~raises]

connect(outcome) ==
    /\ outcome \in ConnectOutcomes
    /\ ~client.within
    /\ client.open < 2 * MaxConnects
    /\ client' = Connected(client, outcome)
    /\ UNCHANGED <<delivered, docs, tcalls, outbox, trip, sessionVars,
                   completionVars>>

cleanup(raises) ==
    /\ ~client.within
    /\ raises => client.open > 0
    /\ client' = CleanedUp(client, raises)
    /\ UNCHANGED <<delivered, docs, tcalls, outbox, trip, sessionVars,
                   completionVars>>

\* "async with MCPClient(...)": __aenter__ is connect(); the body is entered
\* only when it returns
aenter(outcome) ==
    /\ outcome \in ConnectOutcomes
    /\ ~client.within
    /\ client.open < 2 * MaxConnects
    /\ client' = [Connected(client, outcome) EXCEPT
                     !.within = (outcome = "returns")]
    /\ UNCHANGED <<delivered, docs, tcalls, outbox, trip, sessionVars,
                   completionVars>>

\* the body ends or raises: __aexit__ is cleanup() in both cases
aexit(body_raised, raises) ==
    /\ client.within
    /\ raises => client.open > 0
    /\ client' = [CleanedUp(client, raises) EXCEPT !.within = FALSE]
    /\ UNCHANGED <<delivered, docs, tcalls, outbox, trip, sessionVars,
                   completionVars>>

Operations ==
    {"list_tools", "call_tool", "list_prompts", "get_prompt", "read_resource"}

\* the client after an operation: session() raises ConnectionError when
\* _session is None, otherwise the request goes out on the session and ends
\* with the answer the server gives, an error when the session is not
\* initialized
Operated(cl, op, answer) ==
    [cl EXCEPT !.cleaned = FALSE,
               !.last = IF cl.session = "None"
                        THEN [op |-> op, outcome |-> "ConnectionError",
                              sent |-> FALSE, connected |-> cl.connected]
                        ELSE [op |-> op,
                              outcome |-> IF cl.initialized THEN answer
                                          ELSE "error",
                              sent |-> TRUE, connected |-> cl.connected]]

\* list_tools, call_tool, list_prompts, get_prompt, read_resource
operation(op, answer) ==
    /\ op \in Operations
    /\ answer \in {"result", "error"}
    /\ client' = Operated(client, op, answer)
    /\ UNCHANGED <<delivered, docs, tcalls, outbox, trip, sessionVars,
                   completionVars>>

\* the content of plan.md before the first edit of a round trip
NoTrip == <<>>

\* the state of everything outside the session and the completion handler
InitRest ==
    /\ delivered = {}
    /\ docs = DocTable
    /\ tcalls = [c \in CallIds |-> IdleToolCall]
    /\ outbox = <<>>
    /\ trip = NoTrip
    /\ client = NewClient

(***************************************************************************)
(* Specifications                                                          *)
(***************************************************************************)
\* the session with its tool calls; no completion request is under way
Init ==
    /\ InitSession
    /\ query = InitQuery
    /\ completion = NoCompletion
    /\ cpc = "query"
    /\ InitRest

Next ==
    \/ \E c \in CallIds, tool \in Tools : \E arg \in ToolArgs(tool) : CallTool(c, tool, arg)
    \/ \E c \in CallIds : order_pizza_elicit(c)
    \/ \E c \in CallIds : create_story_sample(c)
    \/ \E c \in CallIds : analyze_project_list_roots(c)
    \/ \E c \in CallIds : DefaultCallback(c)
    \/ \E c \in CallIds : mock_elicitation_prompt(c)
    \/ \E c \in CallIds, typed \in UserAnswers : mock_elicitation_answer(c, typed)
    \/ \E c \in CallIds, typed \in UserToppings : mock_elicitation_toppings(c, typed)
    \/ \E c \in CallIds, ret \in HandlerElicitReturns : ElicitationHandler(c, ret)
    \/ \E c \in CallIds : mock_sampler(c)
    \/ \E c \in CallIds, ret \in HandlerSampleReturns : SamplingHandler(c, ret)
    \/ \E c \in CallIds, ret \in HandlerRootsReturns : ListRootsHandler(c, ret)
    \/ \E c \in CallIds : order_pizza_return(c)
    \/ \E c \in CallIds : create_story_return(c)
    \/ \E c \in CallIds, n \in 0..MaxPyFiles : analyze_project_return(c, n)

Spec == Init /\ [][Next]_vars

\* the completion handler applied to every request of the bounded set
InitC ==
    /\ InitCompletion
    /\ callbacks = ConnectCallbacks
    /\ calls = [c \in CallIds |-> IdleCall]
    /\ subreq = [c \in CallIds |-> NoSubRequest]
    /\ InitRest

NextC == Complete

SpecCompletion == InitC /\ [][NextC]_vars

\* the caller of the session also receiving the responses
ReceiveResponse(c) ==
    /\ ~ClientBlocked
    /\ calls[c].state = "done"
    /\ c \notin delivered
    /\ delivered' = delivered \cup {c}
    /\ UNCHANGED <<docs, tcalls, outbox, trip, client, sessionVars, completionVars>>

NextCaller ==
    \/ Next
    \/ \E c \in CallIds : ReceiveResponse(c)

SpecCaller == Init /\ [][NextCaller]_vars

\* the calls of the document and logging tools, several in flight
InitDocs ==
    /\ InitRest
    /\ callbacks = ConnectCallbacks
    /\ calls = [c \in CallIds |-> IdleCall]
    /\ subreq = [c \in CallIds |-> NoSubRequest]
    /\ query = InitQuery
    /\ completion = NoCompletion
    /\ cpc = "query"

NextDocs ==
    \/ \E c \in CallIds, tool \in DocTools :
          \E args \in DocToolArgs(tool) : CallDocTool(c, tool, args)
    \/ \E c \in CallIds : read_document(c)
    \/ \E c \in CallIds : edit_document(c)
    \/ \E c \in CallIds : get_doc(c)
    \/ \E c \in CallIds : list_docs(c)
    \/ \E c \in CallIds : process_item_load(c)
    \/ \E c \in CallIds : process_item_warn(c)
    \/ \E c \in CallIds : process_item_return(c)

SpecDocs == InitDocs /\ [][NextDocs]_vars

\* the event loop runs a ready handler: a step that can be taken is taken
SpecDocsFair == SpecDocs /\ WF_vars(NextDocs)

\* edits of one document by a caller that awaits each call before the next:
\* any edit first, then the edit back
Alphabet == {"a", "y"}

Texts(n) == UNION {[1..k -> Alphabet] : k \in 0..n}

EditArgs ==
    {[doc_id |-> id, old_str |-> a, new_str |-> b] :
        id \in AskedIds, a \in Texts(MaxStrLen), b \in Texts(MaxStrLen)}

EditBack(args) ==
    [doc_id |-> args.doc_id, old_str |-> args.new_str, new_str |-> args.old_str]

CallEdit(c, args) ==
    /\ tcalls[c].state = "idle"
    /\ \A d \in CallIds : d < c => tcalls[d].state = "done"
    /\ args \in (IF c = 1 THEN EditArgs ELSE {EditBack(tcalls[c - 1].args)})
    /\ tcalls' = [tcalls EXCEPT ![c] =
                     [IdleToolCall EXCEPT !.state = "called",
                                          !.tool = "edit_document",
                                          !.args = args]]
    /\ UNCHANGED <<docs, outbox, delivered, trip, client, sessionVars, completionVars>>

InitEdit ==
    /\ \E t \in Texts(MaxDocLen) :
          /\ docs = [DocTable EXCEPT !["plan.md"] = t]
          /\ trip = t
    /\ delivered = {}
    /\ tcalls = [c \in CallIds |-> IdleToolCall]
    /\ outbox = <<>>
    /\ client = NewClient
    /\ callbacks = ConnectCallbacks
    /\ calls = [c \in CallIds |-> IdleCall]
    /\ subreq = [c \in CallIds |-> NoSubRequest]
    /\ query = InitQuery
    /\ completion = NoCompletion
    /\ cpc = "query"

NextEdit ==
    \/ \E c \in CallIds : \E args \in EditArgs : CallEdit(c, args)
    \/ \E c \in CallIds : edit_document(c)

SpecEdit == InitEdit /\ [][NextEdit]_vars

\* the calls of the tools that report progress, several in flight
NextProgress ==
    \/ \E c \in CallIds, tool \in ProgressTools :
          \E args \in ProgressToolArgs(tool) : CallProgressTool(c, tool, args)
    \/ \E c \in CallIds : progress_start(c)
    \/ \E c \in CallIds : download_file_chunk(c)
    \/ \E c \in CallIds : process_data_record(c)
    \/ \E c \in CallIds : progress_return(c)

SpecProgress == InitDocs /\ [][NextProgress]_vars

\* an MCPClient object used directly and as an async context manager
NextClient ==
    \/ \E outcome \in ConnectOutcomes : connect(outcome)
    \/ \E raises \in BOOLEAN : cleanup(raises)
    \/ \E outcome \in ConnectOutcomes : aenter(outcome)
    \/ \E body_raised, raises \in BOOLEAN : aexit(body_raised, raises)
    \/ \E op \in Operations, answer \in {"result", "error"} :
          operation(op, answer)

SpecClient == InitDocs /\ [][NextClient]_vars

(***************************************************************************)
(* Properties of the completion handler (under SpecCompletion)             *)
(***************************************************************************)
\* p is an initial segment of s, compared character by character
IsPrefixOf(p, s) == \E n \in 0..Len(s) : SubSeq(s, 1, n) = p

\* the position of an entry in a declared list
IndexIn(list, w) == CHOOSE i \in 1..Len(list) : list[i] = w

\* values holds exactly the entries of the declared list that have partial as
\* prefix, each once, in the order of the declaration
FilteredInOrder(values, declared, partial) ==
    /\ Range(values) = {w \in Range(declared) : IsPrefixOf(partial, w)}
    /\ NoDuplicates(values)
    /\ \A i, j \in 1..Len(values) :
          i < j => IndexIn(declared, values[i]) < IndexIn(declared, values[j])

IsPrompt(q, name) == q.ref.type = "PromptReference" /\ q.ref.id = name

IsGithubTemplate(q) ==
    q.ref.type = "ResourceTemplateReference" /\ q.ref.id = GITHUB_TEMPLATE

FrameworkQuery(q) == IsPrompt(q, "setup_project") /\ q.argument.name = "framework"

RepoQuery(q) == IsGithubTemplate(q) /\ q.argument.name = "repo"

\* the value the context binds to the sibling argument, as given; "absent"
\* when there is no context, no arguments or no such sibling
SiblingGiven(q, key) ==
    /\ q.context.present
    /\ q.context.hasArguments
    /\ key \in DOMAIN q.context.arguments

\* the sibling is missing, or no candidate subset is registered for its value
\* (in whatever case it is written)
Underspecified(q, key, table) ==
    \/ ~SiblingGiven(q, key)
    \/ Lower(q.context.arguments[key]) \notin DOMAIN table

EmptyResult(r) == r.isNone = FALSE /\ r.values = <<>> /\ r.hasMore = FALSE

\* C1: for a dependent argument (setup_project framework, github repo) whose
\* sibling is absent from the context, whose context is absent, or whose
\* sibling value has no registered subset, handle_completion returns an empty
\* result (empty list, hasMore false) and not the "no result" outcome.
C1_DependentEmptyResult ==
    cpc = "answered" =>
        /\ (FrameworkQuery(query) /\ Underspecified(query, "language", FRAMEWORKS)
               => EmptyResult(completion))
        /\ (RepoQuery(query) /\ Underspecified(query, "owner", GITHUB_REPOS)
               => EmptyResult(completion))

\* the result for a dependent argument whose sibling value is the registered
\* key k of table
SubsetResult(q, r, table, k) ==
    /\ r.isNone = FALSE
    /\ r.hasMore = FALSE
    /\ FilteredInOrder(r.values, table[k], q.argument.value)
    /\ \A other \in DOMAIN table \ {k} :
          Range(r.values) \cap Range(table[other]) = {}

\* C2: for a dependent argument whose sibling value is a registered key,
\* handle_completion returns exactly that key's subset filtered by the partial
\* value as prefix, in declared order, and nothing of another key's subset;
\* framework with partial "" and language python gives fastapi, flask, django.
C2_DependentSubset ==
    cpc = "answered" =>
        /\ (FrameworkQuery(query) /\ SiblingGiven(query, "language")
               /\ query.context.arguments["language"] \in DOMAIN FRAMEWORKS
               => SubsetResult(query, completion, FRAMEWORKS,
                               query.context.arguments["language"]))
        /\ (RepoQuery(query) /\ SiblingGiven(query, "owner")
               /\ query.context.arguments["owner"] \in DOMAIN GITHUB_REPOS
               => SubsetResult(query, completion, GITHUB_REPOS,
                               query.context.arguments["owner"]))
        /\ (FrameworkQuery(query) /\ SiblingGiven(query, "language")
               /\ query.context.arguments["language"] = w_python
               /\ query.argument.value = <<>>
               => completion.values = <<w_fastapi, w_flask, w_django>>)

\* a framework request for language typescript, answered with part of the
\* typescript subset
C2_Witness ==
    /\ cpc = "answered"
    /\ FrameworkQuery(query)
    /\ SiblingGiven(query, "language")
    /\ query.context.arguments["language"] = w_typescript
    /\ query.argument.value = <<"n">>
    /\ completion.values = <<w_nestjs, w_next>>

\* the declared unconditional candidate list of a request, <<>> if it has none
UnconditionalSet(q) ==
    IF (IsPrompt(q, "review_code") \/ IsPrompt(q, "setup_project"))
       /\ q.argument.name = "language"
    THEN LANGUAGES
    ELSE IF IsPrompt(q, "review_code") /\ q.argument.name = "focus"
    THEN FOCUSES
    ELSE IF IsGithubTemplate(q) /\ q.argument.name = "owner"
    THEN GITHUB_OWNERS
    ELSE <<>>

\* C3: for every (reference, argument) with an unconditional candidate set
\* and every partial value, handle_completion returns exactly the candidates
\* that start with the partial value (case-sensitive), in declared order,
\* without duplicates.
C3_UnconditionalPrefix ==
    cpc = "answered" /\ UnconditionalSet(query) # <<>> =>
        /\ completion.isNone = FALSE
        /\ completion.hasMore = FALSE
        /\ FilteredInOrder(completion.values, UnconditionalSet(query),
                           query.argument.value)
        /\ \A i \in 1..Len(completion.values) :
              IsPrefixOf(query.argument.value, completion.values[i])

\* review_code language completed from "ja": javascript and java, in that order
C3_Witness ==
    /\ cpc = "answered"
    /\ IsPrompt(query, "review_code")
    /\ query.argument.name = "language"
    /\ query.argument.value = <<"j","a">>
    /\ completion.values = <<w_javascript, w_java>>

\* the (reference, argument name) pairs the server knows
KnownPair(q) ==
    \/ IsPrompt(q, "review_code") /\ q.argument.name \in {"language", "focus"}
    \/ IsPrompt(q, "setup_project") /\ q.argument.name \in {"language", "framework"}
    \/ IsGithubTemplate(q) /\ q.argument.name \in {"owner", "repo"}

\* C4: handle_completion yields "no result" (None) exactly for the unknown
\* (reference, argument name) pairs, and a result (possibly empty) for every
\* known pair.
C4_NoResultIffUnknown ==
    cpc = "answered" => (completion.isNone <=> ~KnownPair(query))

(***************************************************************************)
(* Properties of the sub-requests (under Spec)                             *)
(***************************************************************************)
Done(c) == calls[c].state = "done"

\* the sub-request of call c has been answered by mock_elicitation
AnsweredByMockElicitation(c) ==
    /\ subreq[c].kind = "elicitation"
    /\ subreq[c].status = "resolved"
    /\ callbacks.elicitation = "mock_elicitation"

\* C5: whatever the user types, mock_elicitation resolves the Elicit
\* sub-request with a result whose action is accept, decline or cancel, and
\* an accept carries the required field want_toppings.
C5_MockElicitationResult ==
    \A c \in CallIds :
        AnsweredByMockElicitation(c) =>
            /\ subreq[c].ret.type = "ElicitResult"
            /\ subreq[c].ret.action \in {"accept", "decline", "cancel"}
            /\ (subreq[c].ret.action = "accept"
                   => "want_toppings" \in DOMAIN subreq[c].ret.content)

\* the caller answered call c's Elicit with an accept that lacks want_toppings
MalformedAccept(c) ==
    /\ subreq[c].kind = "elicitation"
    /\ subreq[c].status = "resolved"
    /\ subreq[c].ret.type = "ElicitResult"
    /\ subreq[c].ret.action = "accept"
    /\ "want_toppings" \notin DOMAIN subreq[c].ret.content

\* C6: an accept whose data lacks the required field want_toppings is
\* rejected before order_pizza sees it as data: the call ends with the
\* error outcome and never with "Order confirmed".
C6_MalformedAcceptRejected ==
    \A c \in CallIds :
        Done(c) /\ MalformedAccept(c) =>
            /\ calls[c].response.text[1] # "Order confirmed: "
            /\ calls[c].response.text[1] = "Error processing pizza order: "

\* order_pizza has returned after an accept that carried only toppings
C6_Witness ==
    \E c \in CallIds :
        /\ Done(c)
        /\ MalformedAccept(c)
        /\ "toppings" \in DOMAIN subreq[c].ret.content

\* the caller's handler raised, or the sub-request was answered with an error
SubRequestFailed(c) ==
    /\ subreq[c].status = "resolved"
    /\ subreq[c].ret.type \in {"raise", "ErrorData", "None"}

\* C7: when the sub-request of a call fails, the tool catches the failure and
\* the call completes with an error string as its (normal) result, for each
\* of order_pizza, create_story and analyze_project.
C7_FailureCaught ==
    \A c \in CallIds :
        Done(c) /\ SubRequestFailed(c) =>
            /\ calls[c].response.isError = FALSE
            /\ Len(calls[c].response.text) = 2
            /\ calls[c].response.text[2] = InvokeError(subreq[c].ret)

\* the session has no callback for the kind of sub-request the tool of c issues
NoCallbackFor(c) ==
    /\ calls[c].tool \in Tools
    /\ callbacks[SubRequestKind(calls[c].tool)] = "none"

\* C8 as stated: without a callback for the kind, every call of a tool that
\* issues it fails with Unsupported.
C8_FailsUnsupported ==
    \A c \in CallIds :
        Done(c) /\ NoCallbackFor(c) =>
            /\ calls[c].response.isError = TRUE
            /\ calls[c].response.text = <<NotSupported(SubRequestKind(calls[c].tool))>>

ErrorPrefix(tool) ==
    CASE tool = "order_pizza"  -> "Error processing pizza order: "
      [] tool = "create_story" -> "Error asking client to generate story: "
      [] OTHER                 -> ""

\* C8 amended: without a callback for the kind, the sub-request fails with
\* the kind's "not supported" error; analyze_project's call then fails with
\* it, while order_pizza and create_story catch it and complete with a normal
\* response that is the tool's error message carrying that reason. No call
\* completes with the tool's success payload.
C8_UnsupportedOutcome ==
    \A c \in CallIds :
        Done(c) /\ NoCallbackFor(c) =>
            LET reason == NotSupported(SubRequestKind(calls[c].tool))
                resp == calls[c].response
            IN  /\ subreq[c].ret.type = "ErrorData"
                /\ subreq[c].ret.message = reason
                /\ IF calls[c].tool = "analyze_project"
                   THEN resp.isError = TRUE /\ Len(resp.text) = 1
                        /\ resp.text[1] = reason
                   ELSE resp.isError = FALSE /\ Len(resp.text) = 2
                        /\ resp.text[1] = ErrorPrefix(calls[c].tool)
                        /\ resp.text[2] = reason

\* on a session set up as MCPClient.connect does, an order_pizza call and a
\* create_story call have both completed
C8_Witness ==
    /\ callbacks = ConnectCallbacks
    /\ \E c \in CallIds : Done(c) /\ calls[c].tool = "order_pizza"
    /\ \E c \in CallIds : Done(c) /\ calls[c].tool = "create_story"

\* the caller answered call c's ListRoots with no roots
NoRootsAnswer(c) ==
    /\ subreq[c].kind = "list_roots"
    /\ subreq[c].status = "resolved"
    /\ subreq[c].ret.type = "ListRootsResult"
    /\ subreq[c].ret.roots = <<>>

\* C9: when ListRoots resolves with an empty sequence of roots,
\* analyze_project completes successfully with "No project roots found".
C9_NoRootsOutcome ==
    \A c \in CallIds :
        Done(c) /\ NoRootsAnswer(c) =>
            /\ calls[c].response.isError = FALSE
            /\ Len(calls[c].response.text) = 1
            /\ calls[c].response.text[1] = "No project roots found"

\* analyze_project has returned after an empty ListRoots answer
C9_Witness ==
    \E c \in CallIds :
        Done(c) /\ calls[c].tool = "analyze_project" /\ NoRootsAnswer(c)

\* C10: a call that has issued a sub-request produces its response only in a
\* step that starts with the sub-request resolved: the resolution precedes
\* the response.
C10_ResolutionPrecedesResponse ==
    [][\A c \in CallIds :
          calls[c].state # "done" /\ calls'[c].state = "done" =>
              /\ subreq[c].kind # "none"
              /\ subreq[c].status = "resolved"
              /\ subreq'[c] = subreq[c]]_vars

\* every call of the session has responded, each after its sub-request of a
\* different kind was resolved
C10_Witness ==
    /\ \A c \in CallIds : Done(c) /\ subreq[c].status = "resolved"
    /\ \E c, d \in CallIds : subreq[c].kind # subreq[d].kind

\* the caller answered call c's Elicit with the given action
ElicitAnswered(c, action) ==
    /\ subreq[c].kind = "elicitation"
    /\ subreq[c].status = "resolved"
    /\ subreq[c].ret.type = "ElicitResult"
    /\ subreq[c].ret.action = action

\* the answer is an accept whose content has the required field
ValidAccept(c) ==
    /\ ElicitAnswered(c, "accept")
    /\ "want_toppings" \in DOMAIN subreq[c].ret.content

\* the toppings an accepted order names: those given, else the schema default
ChosenToppings(content) ==
    IF "toppings" \in DOMAIN content THEN content.toppings ELSE w_mushrooms

\* C20: order_pizza returns "Order confirmed" iff the elicitation was accepted
\* with valid data (with the chosen toppings when want_toppings is true, a
\* plain pizza otherwise), "Order declined" iff the action is decline, and
\* "Order cancelled" when the action is cancel.
C20_OrderOutcome ==
    \A c \in CallIds :
        Done(c) /\ calls[c].tool = "order_pizza" =>
            LET text == calls[c].response.text
                content == subreq[c].ret.content
            IN  /\ (text[1] = "Order confirmed: " <=> ValidAccept(c))
                /\ (ValidAccept(c) /\ content.want_toppings
                       => /\ Len(text) = 4
                          /\ text[2] = calls[c].arg
                          /\ text[3] = " pizza with "
                          /\ text[4] = ChosenToppings(content))
                /\ (ValidAccept(c) /\ ~content.want_toppings
                       => /\ Len(text) = 3
                          /\ text[2] = calls[c].arg
                          /\ text[3] = " plain pizza")
                /\ (text[1] = "Order declined: No pizza ordered"
                       <=> ElicitAnswered(c, "decline"))
                /\ (ElicitAnswered(c, "cancel") => text[1] = "Order cancelled")
                /\ calls[c].response.isError = FALSE

\* one order was accepted without toppings and confirmed as a plain pizza, the
\* other was declined
C20_Witness ==
    \E c, d \in CallIds :
        /\ Done(c) /\ ValidAccept(c) /\ ~subreq[c].ret.content.want_toppings
        /\ calls[c].response.text[3] = " plain pizza"
        /\ Done(d) /\ ElicitAnswered(d, "decline")
        /\ calls[d].response.text[1] = "Order declined: No pizza ordered"

(***************************************************************************)
(* Properties of the caller receiving responses (under SpecCaller)         *)
(***************************************************************************)
\* the order of call c waits for the human: mock_elicitation sits in input()
WaitsInElicit(c) ==
    /\ calls[c].tool = "order_pizza"
    /\ calls[c].state # "done"
    /\ subreq[c].status \in {"input_answer", "input_toppings"}

\* C12: while one order_pizza call waits in its elicitation for the human
\* answer, the response of a second call that has completed can be delivered
\* to the caller: the pending answer does not block the second call.
C12_SecondCallNotBlocked ==
    \A c, d \in CallIds :
        (c # d /\ WaitsInElicit(c) /\ calls[d].state = "done"
               /\ d \notin delivered)
            => ENABLED ReceiveResponse(d)

(***************************************************************************)
(* Properties of edit_document (under SpecEdit)                            *)
(***************************************************************************)
\* old occurs in s at position i
OccursAt(s, old, i) ==
    /\ i \in 1..(Len(s) + 1)
    /\ i + Len(old) - 1 <= Len(s)
    /\ \A k \in 1..Len(old) : s[i + k - 1] = old[k]

OccursIn(s, old) == \E i \in 1..(Len(s) + 1) : OccursAt(s, old, i)

\* the non-overlapping occurrences of old in s, taken from the left: a
\* position is chosen iff old occurs there and no chosen occurrence further
\* left reaches into it
ChosenOccurrences(s, old) ==
    CHOOSE S \in SUBSET (1..(Len(s) + 1)) :
        \A i \in 1..(Len(s) + 1) :
            i \in S <=> /\ OccursAt(s, old, i)
                        /\ \A j \in S : j < i => j + Len(old) <= i

\* position i of s lies inside a chosen occurrence
Covered(S, old, i) == \E j \in S : j <= i /\ i < j + Len(old)

RECURSIVE Pieces(_, _, _, _, _)
Pieces(s, S, old, new, i) ==
    IF i > Len(s) + 1
    THEN <<>>
    ELSE (IF i \in S THEN new ELSE <<>>)
         \o (IF i <= Len(s) /\ ~Covered(S, old, i) THEN <<s[i]>> ELSE <<>>)
         \o Pieces(s, S, old, new, i + 1)

\* s with every chosen occurrence of old replaced by new
EveryOccurrenceReplaced(s, old, new) ==
    Pieces(s, ChosenOccurrences(s, old), old, new, 1)

\* call c is an edit_document that ran in this step
EditStep(c) ==
    /\ tcalls[c].state = "called"
    /\ tcalls[c].tool = "edit_document"
    /\ tcalls'[c].state = "done"

Success(response) == ~response.isError

\* C14: an edit_document on an existing id replaces every non-overlapping
\* occurrence of old_str by new_str in one update and reports success; when
\* old_str does not occur, the content stays identical and the call still
\* reports success.
C14_ReplacesEveryOccurrence ==
    [][\A c \in CallIds :
          (EditStep(c) /\ tcalls[c].args.doc_id \in DOMAIN docs) =>
              LET a == tcalls[c].args
                  before == docs[a.doc_id]
              IN  /\ docs'[a.doc_id]
                       = EveryOccurrenceReplaced(before, a.old_str, a.new_str)
                  /\ Success(tcalls'[c].response)
                  /\ (~OccursIn(before, a.old_str)
                         => docs'[a.doc_id] = before)
                  /\ \A id \in DOMAIN docs :
                         id # a.doc_id => docs'[id] = docs[id]]_vars

\* the first edit found no occurrence of its old_str, kept the content and
\* reported success; the second replaced two occurrences
C14_Witness ==
    /\ tcalls[1].state = "done"
    /\ tcalls[1].args.doc_id = "plan.md"
    /\ ~OccursIn(trip, tcalls[1].args.old_str)
    /\ Success(tcalls[1].response)
    /\ tcalls[2].state = "done"
    /\ Cardinality(ChosenOccurrences(trip, tcalls[2].args.old_str)) = 2
    /\ docs["plan.md"] # trip
    /\ Success(tcalls[2].response)

\* calls 1 and 2 were edit_document(plan.md, a, b) and its edit back, both
\* have run, and no later edit has
RoundTripDone ==
    /\ tcalls[1].state = "done"
    /\ tcalls[2].state = "done"
    /\ \A c \in CallIds : c > 2 => tcalls[c].state # "done"
    /\ tcalls[1].args.doc_id = "plan.md"
    /\ tcalls[2].args = EditBack(tcalls[1].args)

\* in document s the strings a and b do not otherwise occur: b is nowhere in
\* it, and a is in it only where the edit replaces it
NotOtherwise(s, a, b) ==
    /\ ~OccursIn(s, b)
    /\ \A i \in 1..(Len(s) + 1) :
           OccursAt(s, a, i) => i \in ChosenOccurrences(s, a)

\* C16 as stated: for every document in which a and b do not otherwise occur,
\* edit_document(id, a, b) followed by edit_document(id, b, a) leaves the
\* content equal to the content before the first edit.
C16_RoundTrip ==
    (RoundTripDone
        /\ NotOtherwise(trip, tcalls[1].args.old_str, tcalls[1].args.new_str))
        => docs["plan.md"] = trip

\* the places of the copies of new that replacing the occurrences S of old put
\* into the edited document
InsertedAt(S, old, new) ==
    {j + Cardinality({i \in S : i < j}) * (Len(new) - Len(old)) : j \in S}

\* in the edited document, b occurs only where the first edit put it
OnlyInserted(s, a, b) ==
    LET edited == EveryOccurrenceReplaced(s, a, b)
    IN  {i \in 1..(Len(edited) + 1) : OccursAt(edited, b, i)}
            = InsertedAt(ChosenOccurrences(s, a), a, b)

\* C16 amended: the round trip restores the content when, besides a and b not
\* otherwise occurring in the document, b occurs in the edited document only
\* at the places where the first edit put it (no copy of b is formed by
\* inserted text together with its neighbours).
C16_RoundTripOnlyInserted ==
    (RoundTripDone
        /\ NotOtherwise(trip, tcalls[1].args.old_str, tcalls[1].args.new_str)
        /\ OnlyInserted(trip, tcalls[1].args.old_str, tcalls[1].args.new_str))
        => docs["plan.md"] = trip

\* a round trip that replaced two occurrences of a by a longer b and restored
\* the content
C16_Witness ==
    /\ RoundTripDone
    /\ NotOtherwise(trip, tcalls[1].args.old_str, tcalls[1].args.new_str)
    /\ OnlyInserted(trip, tcalls[1].args.old_str, tcalls[1].args.new_str)
    /\ Cardinality(ChosenOccurrences(trip, tcalls[1].args.old_str)) = 2
    /\ Len(tcalls[1].args.old_str) = 1
    /\ Len(tcalls[1].args.new_str) = 2
    /\ docs["plan.md"] = trip

(***************************************************************************)
(* Properties of the document table with several calls in flight (under    *)
(* SpecDocs and SpecDocsFair)                                              *)
(***************************************************************************)
\* call c ran to its end in this step
Ends(c) == tcalls[c].state = "called" /\ tcalls'[c].state = "done"

\* the operations that take a document id
IdOperations == {"read_doc_contents", "edit_document", "get_doc"}

\* the error outcome of an operation on an id that is not in the table: the
\* ValueError of read_document and edit_document, the KeyError of get_doc
NotFoundOutcome(response) ==
    /\ response.isError
    /\ response.text[1] \in {"Doc with id not found", "KeyError"}

\* C15: every document operation addressed to an id that is not in the table
\* (read_doc_contents, edit_document, the docs://{doc_id} resource) fails
\* with a not-found error outcome, adds no entry for the id, and leaves every
\* existing document unchanged.
C15_UnknownIdFails ==
    [][\A c \in CallIds :
          (Ends(c) /\ tcalls[c].tool \in IdOperations
                   /\ tcalls[c].args.doc_id \notin DOMAIN docs)
              => /\ NotFoundOutcome(tcalls'[c].response)
                 /\ tcalls[c].args.doc_id \notin DOMAIN docs'
                 /\ docs' = docs]_vars

\* an edit and a resource read of the unknown id both failed, the table as it
\* was
C15_Witness ==
    \E c, d \in CallIds :
        /\ tcalls[c].state = "done" /\ tcalls[c].tool = "edit_document"
        /\ tcalls[c].args.doc_id = "missing.md"
        /\ NotFoundOutcome(tcalls[c].response)
        /\ tcalls[d].state = "done" /\ tcalls[d].tool = "get_doc"
        /\ tcalls[d].args.doc_id = "missing.md"
        /\ NotFoundOutcome(tcalls[d].response)
        /\ docs = DocTable

\* the sequences that hold every element of T once
Orders(T) ==
    {p \in [1..Cardinality(T) -> T] :
        \A i, j \in 1..Cardinality(T) : i # j => p[i] # p[j]}

\* the content of document id after the edits of the calls in p, one after
\* the other
RECURSIVE AppliedInOrder(_, _, _)
AppliedInOrder(p, id, content) ==
    IF p = <<>>
    THEN content
    ELSE AppliedInOrder(Tail(p), id,
             IF tcalls[Head(p)].args.doc_id = id
             THEN Replace(content, tcalls[Head(p)].args.old_str,
                          tcalls[Head(p)].args.new_str)
             ELSE content)

EditCalls(states) ==
    {c \in CallIds : /\ tcalls[c].tool = "edit_document"
                     /\ tcalls[c].state \in states
                     /\ tcalls[c].args.doc_id \in DOMAIN docs}

\* the contents of document id after all the edits of T in some order
SerialContents(T, id) ==
    {AppliedInOrder(p, id, DocTable[id]) : p \in Orders(T)}

\* C17: with several calls in flight on one id each edit_document is atomic:
\* the table changes only by one whole edit in one step, every content a
\* read returns is the content after some of the edits in some order, and the
\* content of each document is the content after the finished edits in some
\* sequential order.
C17_EditAtomic ==
    /\ [][docs' # docs =>
            \E c \in CallIds :
                /\ Ends(c)
                /\ tcalls[c].tool = "edit_document"
                /\ docs' = EditedDocs(docs, tcalls[c].args.doc_id,
                                      tcalls[c].args.old_str,
                                      tcalls[c].args.new_str)]_vars
    /\ [](\A id \in DOMAIN DocTable :
             docs[id] \in SerialContents(EditCalls({"done"}), id))
    /\ [](\A c \in CallIds :
             (tcalls[c].state = "done"
                 /\ tcalls[c].tool \in {"read_doc_contents", "get_doc"}
                 /\ ~tcalls[c].response.isError)
                 => \E T \in SUBSET EditCalls({"called", "done"}) :
                        tcalls[c].response.text[1]
                            \in SerialContents(T, tcalls[c].args.doc_id))

\* two edits of plan.md that do not commute have both run
C17_Witness ==
    \E c, d \in CallIds :
        /\ c # d
        /\ EditCalls({"done"}) = {c, d}
        /\ tcalls[c].args.doc_id = "plan.md"
        /\ tcalls[d].args.doc_id = "plan.md"
        /\ Cardinality(SerialContents({c, d}, "plan.md")) = 2
        /\ outbox[1].call = d

\* C18: only edit_document changes the document table, no operation adds or
\* removes a document id, and any two reads of docs://documents return the
\* same set of ids.
C18_TableFrame ==
    /\ [][/\ DOMAIN docs' = DOMAIN docs
          /\ docs' # docs =>
                \E c \in CallIds :
                    Ends(c) /\ tcalls[c].tool = "edit_document"]_vars
    /\ [](\A c, d \in CallIds :
             (/\ tcalls[c].state = "done" /\ tcalls[c].tool = "list_docs"
              /\ tcalls[d].state = "done" /\ tcalls[d].tool = "list_docs")
                 => tcalls[c].response.text = tcalls[d].response.text)

\* the collection was read before and after a read of the unknown id, with
\* the same ids both times
C18_Witness ==
    \E c, d \in CallIds :
        /\ c # d
        /\ tcalls[c].state = "done" /\ tcalls[c].tool = "list_docs"
        /\ tcalls[d].state = "done" /\ tcalls[d].tool = "list_docs"
        /\ tcalls[c].response.text[1] = {"plan.md", "spec.txt"}
        /\ tcalls[d].response.text[1] = {"plan.md", "spec.txt"}

\* the responses that went out for call c
ResponsesOf(c) == {i \in 1..Len(outbox) : outbox[i].call = c}

\* the tool body of call c raises: an operation on an id that is not in the
\* table
Raises(c) ==
    /\ tcalls[c].tool \in IdOperations
    /\ tcalls[c].args.doc_id \notin DOMAIN docs

\* C11: every tool call eventually yields exactly one terminal response, a
\* success payload or, when the tool body raises, an error response; never
\* none and never two. A raising body does not stop the session: calls made
\* after it are answered as well.
C11_OneTerminalResponse ==
    /\ \A c \in CallIds :
           [](tcalls[c].state = "called" => <>(tcalls[c].state = "done"))
    /\ [](\A c \in CallIds :
             /\ tcalls[c].state \in {"idle", "called", "done"}
             /\ Cardinality(ResponsesOf(c))
                   = (IF tcalls[c].state = "done" THEN 1 ELSE 0)
             /\ tcalls[c].state = "done"
                   => (tcalls[c].response.isError <=> Raises(c)))

\* the first call raised and got its error response, and the second call got
\* its response after it
C11_Witness ==
    /\ Len(outbox) = 2
    /\ outbox[1].call = 1 /\ outbox[1].response.isError
    /\ tcalls[1].tool = "read_doc_contents"
    /\ outbox[2].call = 2 /\ ~outbox[2].response.isError
    /\ tcalls[2].tool = "process_item"
    /\ tcalls[2].args.should_fail

(***************************************************************************)
(* Properties of the progress tools (under SpecProgress)                   *)
(***************************************************************************)
\* the notifications 0, 1, ..., total, each with the same total
FullProgress(total) ==
    [i \in 1..(total + 1) |-> [progress |-> i - 1, total |-> total]]

\* C19: for every non-negative size argument, a call of download_file or
\* process_data that has ended has its success response, after progress
\* notifications whose values are exactly 0, 1, ..., total in increasing
\* order with the constant total 10 * size_mb (respectively records).
C19_ProgressToTotal ==
    \A c \in CallIds :
        (tcalls[c].state = "done" /\ tcalls[c].tool \in ProgressTools)
            => /\ ~tcalls[c].response.isError
               /\ tcalls[c].progress = FullProgress(total_chunks(c))

(***************************************************************************)
(* Case in dependent completion (under SpecCompletion)                     *)
(***************************************************************************)
\* a and b are the same letter, in whatever case
SameLetter(a, b) ==
    \/ a = b
    \/ \E i \in 1..Len(LowerCase) :
          {a, b} = {LowerCase[i], UpperCase[i]}

\* s and t differ at most in the case of their letters
SameIgnoringCase(s, t) ==
    /\ Len(s) = Len(t)
    /\ \A i \in 1..Len(s) : SameLetter(s[i], t[i])

\* the result for a dependent argument is taken from the subset of every key
\* that the sibling value names in whatever case, and holds exactly the
\* candidates of that subset that begin with the partial value as written
CaseRule(q, r, table, key) ==
    \A k \in DOMAIN table :
        (SiblingGiven(q, key) /\ SameIgnoringCase(q.context.arguments[key], k))
            => /\ r.isNone = FALSE
               /\ \A w \in Range(table[k]) :
                      w \in Range(r.values)
                          <=> /\ Len(q.argument.value) <= Len(w)
                              /\ \A i \in 1..Len(q.argument.value) :
                                     w[i] = q.argument.value[i]
               /\ Range(r.values) \subseteq Range(table[k])

\* C22: in dependent completion the sibling's context value is looked up
\* case-insensitively (language Python or owner GOOGLE selects the
\* registered subset), and the partial value is matched against the
\* candidates case-sensitively (partial F matches none of fastapi, flask).
C22_SiblingCaseInsensitive ==
    cpc = "answered" =>
        /\ (FrameworkQuery(query)
               => CaseRule(query, completion, FRAMEWORKS, "language"))
        /\ (RepoQuery(query)
               => CaseRule(query, completion, GITHUB_REPOS, "owner"))
        /\ (FrameworkQuery(query) /\ SiblingGiven(query, "language")
               /\ query.context.arguments["language"] = w_Python
               /\ query.argument.value = <<"F">>
               => completion = Completion(<<>>))

\* a repo request whose owner is written GOOGLE, answered from google's subset
C22_Witness ==
    /\ cpc = "answered"
    /\ RepoQuery(query)
    /\ SiblingGiven(query, "owner")
    /\ query.context.arguments["owner"] = w_GOOGLE
    /\ query.argument.value = <<"t">>
    /\ completion.isNone = FALSE
    /\ completion.values = <<w_tensorflow>>

(***************************************************************************)
(* Properties of MCPClient (under SpecClient)                              *)
(***************************************************************************)
\* the client holds a session that its operations use: session() returns it
Usable(cl) == cl.session # "None"

\* C21: MCPClient holds a usable session exactly between a successful
\* connect and the next cleanup; an operation called outside that interval
\* fails with ConnectionError without sending a request; and once a cleanup
\* has run, the session reference is cleared.
C21_SessionLifecycle ==
    /\ Usable(client) <=> client.connected
    /\ (client.last.op # "none" /\ ~client.last.connected)
          => /\ client.last.outcome = "ConnectionError"
             /\ ~client.last.sent
    /\ client.cleaned => client.session = "None"

====
